---- MODULE Spec2Model ----
(***************************************************************************)
(* The wallet session manager `useWallets` (the instantiable variant):     *)
(* its refs, the four watchers, select/connect/disconnect and the adapter  *)
(* events it subscribes to.  The adapters, the key-value storage and the   *)
(* reactive substrate are the environment.  The module-global variant of   *)
(* useVueWalletProvider, with its shared connecting flag, is modelled too. *)
(***************************************************************************)
EXTENDS Integers, Sequences, FiniteSets, TLC

\* ------------------------------------------------------------- bounds
\* adapter connect() calls the session may issue in one behaviour
MaxConnectCalls == 2
\* caller operations in one synchronous block, before the watcher queue is flushed
MaxSyncOps == 2
\* init() calls after the first, each replacing the adapter list
MaxSwaps == 2

\* ------------------------------------------------------------- values
Null == "null"
AdapterNames == {"A", "B"}
WalletNames == AdapterNames \cup {Null}
\* one storage key: the default, which init() may also name
DefaultKey == "walletName"
Keys == {DefaultKey}
\* the adapter lists init() is called with
AdapterLists == {<<"A">>, <<"A", "B">>}
\* an adapter's publicAccount / network: NoValue is null; each adapter has one
\* account and one network of its own
NoValue == "none"
AccountOf(a) == a
NetworkOf(a) == a

NoItem == [kind |-> "absent", val |-> Null]
NoWallet == [adapter |-> Null, readyState |-> Null]

VARIABLES
  s,             \* the session: refs of useWallets, storage, listeners it added
  ext,           \* the adapters' own state, and whether storage can be used
  connPending,   \* adapter.connect() calls awaited: <<adapter, caller>> -> count
  discPending,   \* adapter.disconnect() calls awaited: adapter -> count
  watch,         \* the watchers' previous source values and the flush in progress
  counts,        \* adapter connect calls issued, init called, init calls after the first
  last,          \* the last operation and its outcome, as the caller sees it
  singleton      \* the module-global variant: its connecting flag and its calls

vars == <<s, ext, connPending, discPending, watch, counts, last, singleton>>

\* ------------------------------------------------------------- storage
JSONstringify(name) == [kind |-> "json", val |-> name]

\* a JSON.parse that throws on every text
JSONparse_throws(value) == Null

\* JSON.parse throws on text that is no JSON
JSONparse(value) == IF value.kind = "json" THEN value.val ELSE Null

getWalletNameFromLocalStorage(st, e, key) ==
  IF ~e.storageOK THEN Null
  ELSE LET value == st.storage[key] IN
       IF value = NoItem THEN Null ELSE JSONparse(value)

\* the persisted selection under the configured key
Persisted(st) == st.storage[st.localStorageKey]

setWalletName(st, e, name) ==
  IF ~e.storageOK THEN st
  ELSE IF name = Null
       THEN [st EXCEPT !.storage[st.localStorageKey] = NoItem, !.walletName = Null]
       ELSE [st EXCEPT !.storage[st.localStorageKey] = JSONstringify(name),
                       !.walletName = name]

\* ------------------------------------------------------------- session helpers
\* setDefaultState that forgets to reset connected
setDefaultState_keepsConnected(st) ==
  [st EXCEPT !.wallet = NoWallet, !.adapter = Null, !.account = NoValue,
             !.walletNetwork = NoValue]

\* setDefaultState that leaves account and network as they are
setDefaultState_keepsAccount(st) ==
  [st EXCEPT !.wallet = NoWallet, !.adapter = Null, !.connected = FALSE]

setDefaultState(st) ==
  [st EXCEPT !.wallet = NoWallet, !.adapter = Null, !.account = NoValue,
             !.connected = FALSE, !.walletNetwork = NoValue]

handleError(st, error) ==
  IF st.onError # Null THEN [st EXCEPT !.delivered = @ \cup {error}] ELSE st

handleAddressChange(st, e) ==
  IF st.adapter = Null THEN st
  ELSE [st EXCEPT !.account = e.publicAccount[st.adapter]]

handleNetworkChange(st, e) ==
  IF st.adapter = Null THEN st
  ELSE [st EXCEPT !.walletNetwork = e.network[st.adapter]]

\* adapter.onAccountChange() and adapter.onNetworkChange() subscribe the adapter
\* to its provider; they touch no ref of the session
handleAfterConnect(st) ==
  IF st.adapter = Null THEN st
  ELSE [st EXCEPT !.handlers[st.adapter] = @ + 1]

\* off(event, fn) removes every listener registered with fn
handleDisconnect(st, e) ==
  LET s1 == setWalletName(st, e, Null) IN
  IF s1.adapter = Null THEN s1
  ELSE setDefaultState([s1 EXCEPT !.handlers[s1.adapter] = 0])

\* index of the first entry of wallets with this adapter name, 0 if none
FindWallet(ws, name) ==
  IF \E i \in 1..Len(ws) : ws[i].adapter = name
  THEN CHOOSE i \in 1..Len(ws) :
         /\ ws[i].adapter = name
         /\ \A j \in 1..(i - 1) : ws[j].adapter # name
  ELSE 0

\* a handleReadyStateChange that always writes the first entry
handleReadyStateChange_first(st, current, isReadyState) ==
  LET index == FindWallet(st.wallets, current) IN
  IF index = 0 THEN st
  ELSE [st EXCEPT !.wallets[1] =
                    [adapter |-> st.wallets[1].adapter, readyState |-> isReadyState],
                  !.walletsChanged = TRUE]

handleReadyStateChange(st, current, isReadyState) ==
  LET index == FindWallet(st.wallets, current) IN
  IF index = 0 THEN st
  ELSE [st EXCEPT !.wallets[index] =
                    [adapter |-> st.wallets[index].adapter, readyState |-> isReadyState],
                  !.walletsChanged = TRUE]

init(st, wallets, onHandleError, lsKey, autoConnection) ==
  [st EXCEPT !.adapters = wallets,
             !.adaptersChanged = TRUE,
             !.localStorageKey = IF lsKey # Null THEN lsKey ELSE @,
             !.autoConnect = IF autoConnection = "undefined" THEN @
                             ELSE autoConnection = "true",
             !.onError = IF @ # Null THEN onHandleError ELSE @]

\* ------------------------------------------------------------- connect / disconnect
\* the entry guard of connect() without its test of connecting
ConnectGuard_ignoresConnecting(st) == st.disconnecting \/ st.connected

ConnectGuard(st) == st.connecting \/ st.disconnecting \/ st.connected

\* a readiness test that lets every wallet through
IsReady_always(e, a) == TRUE

\* the readiness test of connect(), on the adapter's own readyState
IsReady(e, a) == e.readyState[a] = "Installed" \/ e.readyState[a] = "Loadable"

\* connect() on a wallet that is not ready: the selection is cleared, the install
\* page is opened in a new window when the adapter has a url, the error is thrown
connectNotReady(st, e) ==
  handleError(setWalletName(st, e, Null), "WalletNotReadyError")

\* connect() up to its await: the session after it, what the caller sees, and
\* the adapter whose connect() is awaited (Null when none is called)
\* (the else branch of lines 184-187 cannot be reached: line 175 has thrown)
connect(st, e) ==
  IF ConnectGuard(st) THEN [s |-> st, outcome |-> "noop", await |-> Null]
  ELSE
    LET index == FindWallet(st.wallets, st.walletName) IN
    IF index = 0
    THEN [s |-> handleError(st, "WalletNotSelectedError"),
          outcome |-> "WalletNotSelectedError", await |-> Null]
    ELSE
      LET selectedWallet == st.wallets[index]
          a == selectedWallet.adapter
          s1 == [st EXCEPT !.wallet = selectedWallet,
                           !.adapter = a,
                           !.connected = e.connected[a],
                           !.account = e.publicAccount[a],
                           !.walletNetwork = e.network[a]]
      IN IF ~IsReady(e, a)
         THEN [s |-> connectNotReady(s1, e),
               outcome |-> "WalletNotReadyError", await |-> Null]
         ELSE [s |-> [s1 EXCEPT !.connecting = TRUE],
               outcome |-> "pending", await |-> a]

DisconnectGuard(st) == st.disconnecting

disconnect(st, e) ==
  IF DisconnectGuard(st) THEN [s |-> st, outcome |-> "noop", await |-> Null]
  ELSE IF st.adapter = Null
       THEN [s |-> setWalletName(st, e, Null), outcome |-> "cleared", await |-> Null]
       ELSE [s |-> [st EXCEPT !.disconnecting = TRUE],
             outcome |-> "pending", await |-> st.adapter]

\* connect() after its await resolved: handleAfterConnect, then finally
connectResolved(st) == [handleAfterConnect(st) EXCEPT !.connecting = FALSE]

\* connect() after its await rejected: catch, then finally
connectRejected(st, e) == [setWalletName(st, e, Null) EXCEPT !.connecting = FALSE]

\* disconnect() after its await: catch when it rejected, then finally
disconnectSettled(st, e, rejected) ==
  LET s1 == IF rejected THEN setWalletName(st, e, Null) ELSE st
  IN handleDisconnect([s1 EXCEPT !.disconnecting = FALSE], e)

\* ------------------------------------------------------------- signing
\* the three signing operations up to their await: the session after it, what
\* the caller sees (an error thrown, or the adapter method awaited, whose
\* response is returned as it is)
signAndSubmitTransaction(st) ==
  IF st.adapter = Null
  THEN [s |-> handleError(st, "WalletNotSelectedError"),
        outcome |-> "WalletNotSelectedError"]
  ELSE IF ~st.connected
       THEN [s |-> handleError(st, "WalletNotConnectedError"),
             outcome |-> "WalletNotConnectedError"]
       ELSE [s |-> st, outcome |-> "adapter.signAndSubmitTransaction"]

signTransaction(st) ==
  IF st.adapter = Null
  THEN [s |-> handleError(st, "WalletNotSelectedError"),
        outcome |-> "WalletNotSelectedError"]
  ELSE IF ~st.connected
       THEN [s |-> handleError(st, "WalletNotConnectedError"),
             outcome |-> "WalletNotConnectedError"]
       ELSE [s |-> st, outcome |-> "adapter.signTransaction"]

\* signMessage without its test of connected
signMessage_skipsConnected(st) ==
  IF st.adapter = Null
  THEN [s |-> handleError(st, "WalletNotSelectedError"),
        outcome |-> "WalletNotSelectedError"]
  ELSE [s |-> st, outcome |-> "adapter.signMessage"]

signMessage(st) ==
  IF st.adapter = Null
  THEN [s |-> handleError(st, "WalletNotSelectedError"),
        outcome |-> "WalletNotSelectedError"]
  ELSE IF ~st.connected
       THEN [s |-> handleError(st, "WalletNotConnectedError"),
             outcome |-> "WalletNotConnectedError"]
       ELSE [s |-> st, outcome |-> "adapter.signMessage"]

\* ------------------------------------------------------------- watchers
Sources2(st) == <<st.walletName, st.readyState>>
Sources3(st) == <<st.autoConnect, st.localStorageKey, st.walletName>>
Sources4(st) == <<st.walletName, st.adapter, st.connecting, st.connected,
                  st.readyState, st.autoConnect>>

Dirty1(st) == st.adaptersChanged
Dirty2(st, w) == st.walletsChanged \/ Sources2(st) # w.old2
Dirty3(st, w) == Sources3(st) # w.old3
Dirty4(st, w) == Sources4(st) # w.old4
Dirty(st, w) == Dirty1(st) \/ Dirty2(st, w) \/ Dirty3(st, w) \/ Dirty4(st, w)

\* the entries of seq, in order, as wallets
RECURSIVE MapWallets(_, _)
MapWallets(seq, e) ==
  IF seq = << >> THEN << >>
  ELSE <<[adapter |-> Head(seq), readyState |-> e.readyState[Head(seq)]]>>
       \o MapWallets(Tail(seq), e)

InSeq(seq, x) == \E i \in 1..Len(seq) : seq[i] = x

\* off(event, fn) on an emitter with n listeners of the event: those registered
\* with fn itself go, and a function created for the call is none of them
off(n, registered) == IF registered THEN 0 ELSE n

\* watch(adapters): the cleanup of the previous run goes over the adapters of
\* the list as it is now and calls off() with a new closure; then the body runs
watchAdapters(st, e) ==
  [st EXCEPT !.adaptersChanged = FALSE,
             !.wallets = MapWallets(st.adapters, e),
             !.walletsChanged = TRUE,
             !.readyListeners = [a \in AdapterNames |->
                                   IF InSeq(st.adapters, a)
                                   THEN off(@[a], FALSE) + 1 ELSE @[a]]]

\* watch([walletName, wallets, readyState]): forEach, the last match wins
RECURSIVE SelectedReadyState(_, _, _, _)
SelectedReadyState(ws, name, e, acc) ==
  IF ws = << >> THEN acc
  ELSE SelectedReadyState(Tail(ws), name, e,
         IF Head(ws).adapter = name THEN e.readyState[Head(ws).adapter] ELSE acc)

watchReadyState(st, e) ==
  [st EXCEPT !.walletsChanged = FALSE,
             !.readyState = SelectedReadyState(st.wallets, st.walletName, e, @)]

\* watch([autoConnect, localStorageKey, walletName])
watchStoredName(st, e) ==
  [st EXCEPT !.walletName = getWalletNameFromLocalStorage(st, e, st.localStorageKey)]

AutoConnectGuard(st) ==
  \/ st.connecting
  \/ st.connected
  \/ st.walletName = Null
  \/ ~st.autoConnect
  \/ st.readyState = "Unsupported"

\* the auto-connect watcher: connect() up to its await, a thrown error caught
\* and handed to handleError
watchAutoConnect(st, e) ==
  IF AutoConnectGuard(st) THEN [s |-> st, outcome |-> "skip", await |-> Null]
  ELSE LET r == connect(st, e) IN
       IF r.outcome \in {"WalletNotSelectedError", "WalletNotReadyError"}
       THEN [r EXCEPT !.s = handleError(r.s, r.outcome)]
       ELSE r

\* ------------------------------------------------------------- initial state
InitSession ==
  [adapters |-> << >>, adaptersChanged |-> FALSE,
   localStorageKey |-> DefaultKey, autoConnect |-> FALSE, onError |-> Null,
   walletName |-> Null, wallet |-> NoWallet, adapter |-> Null,
   account |-> NoValue, connected |-> FALSE, connecting |-> FALSE,
   disconnecting |-> FALSE, readyState |-> "Unsupported",
   walletNetwork |-> NoValue, wallets |-> << >>, walletsChanged |-> FALSE,
   handlers |-> [a \in AdapterNames |-> 0],
   readyListeners |-> [a \in AdapterNames |-> 0],
   delivered |-> {},
   storage |-> [k \in Keys |-> NoItem]]

\* the module-global variant when its module is loaded
InitSingleton ==
  [connecting |-> FALSE, pending |-> [a \in AdapterNames |-> 0], calls |-> 0,
   outcome |-> "none"]

Init ==
  /\ \E ok \in BOOLEAN, stored \in {NoItem, JSONstringify("A")},
        rs \in {[a \in AdapterNames |-> "NotDetected"],
                [a \in AdapterNames |-> "Unsupported"]} :
       \* without storage nothing is stored; without a window (every adapter
       \* Unsupported) there is no storage
       /\ ~ok => stored = NoItem
       /\ rs["A"] = "Unsupported" => ~ok
       /\ s = [InitSession EXCEPT !.storage[DefaultKey] = stored]
       /\ ext = [readyState |-> rs,
                 connected |-> [a \in AdapterNames |-> FALSE],
                 publicAccount |-> [a \in AdapterNames |-> NoValue],
                 network |-> [a \in AdapterNames |-> NoValue],
                 storageOK |-> ok]
  /\ connPending = [p \in AdapterNames \X {"caller", "auto"} |-> 0]
  /\ discPending = [a \in AdapterNames |-> 0]
  /\ watch = [old2 |-> Sources2(InitSession), old3 |-> Sources3(InitSession),
              old4 |-> Sources4(InitSession), syncOps |-> 0, flushing |-> FALSE]
  /\ counts = [connectCalls |-> 0, inited |-> FALSE, swaps |-> 0]
  /\ last = [op |-> "none", outcome |-> "none"]
  /\ singleton = InitSingleton

\* ------------------------------------------------------------- caller operations
\* A caller runs after the watcher queue is flushed, or in the same synchronous
\* block as the caller operation before it (select(x); connect()), never inside
\* a flush.
CallerTurn ==
  /\ ~watch.flushing
  /\ ~Dirty(s, watch) \/ (0 < watch.syncOps /\ watch.syncOps < MaxSyncOps)

\* the block goes on while a watcher job is queued
CallerDone(st, w) == [w EXCEPT !.syncOps = IF Dirty(st, w) THEN @ + 1 ELSE 0]

\* the configuration intake, once per session, with an onError among onErrs
InitCallWith(onErrs) ==
  /\ CallerTurn
  /\ ~counts.inited
  /\ \E wl \in AdapterLists, onErr \in onErrs, lsKey \in Keys \cup {Null},
        auto \in {"undefined", "true", "false"} :
       s' = init(s, wl, onErr, lsKey, auto)
  /\ counts' = [counts EXCEPT !.inited = TRUE]
  /\ last' = [op |-> "other", outcome |-> "ok"]
  /\ watch' = CallerDone(s', watch)
  /\ UNCHANGED <<ext, connPending, discPending, singleton>>

InitCall == InitCallWith({Null, "handler"})

\* a later init(), which replaces the adapter list
InitAgain ==
  /\ CallerTurn
  /\ counts.inited
  /\ counts.swaps < MaxSwaps
  /\ \E wl \in AdapterLists, onErr \in {Null, "handler"}, lsKey \in Keys \cup {Null},
        auto \in {"undefined", "true", "false"} :
       s' = init(s, wl, onErr, lsKey, auto)
  /\ counts' = [counts EXCEPT !.swaps = @ + 1]
  /\ last' = [op |-> "other", outcome |-> "ok"]
  /\ watch' = CallerDone(s', watch)
  /\ UNCHANGED <<ext, connPending, discPending, singleton>>

\* init() given an onError handler
InitWithHandler == InitCallWith({"handler"})

Select ==
  /\ CallerTurn
  /\ \E name \in WalletNames : s' = setWalletName(s, ext, name)
  /\ last' = [op |-> "other", outcome |-> "ok"]
  /\ watch' = CallerDone(s', watch)
  /\ UNCHANGED <<ext, connPending, discPending, counts, singleton>>

Connect ==
  /\ CallerTurn
  /\ LET r == connect(s, ext) IN
     /\ r.await # Null => counts.connectCalls < MaxConnectCalls
     /\ s' = r.s
     /\ connPending' = IF r.await = Null THEN connPending
                       ELSE [connPending EXCEPT ![<<r.await, "caller">>] = @ + 1]
     /\ counts' = [counts EXCEPT !.connectCalls = IF r.await = Null THEN @ ELSE @ + 1]
     /\ last' = [op |-> "connect", outcome |-> r.outcome]
  /\ watch' = CallerDone(s', watch)
  /\ UNCHANGED <<ext, discPending, singleton>>

Disconnect ==
  /\ CallerTurn
  /\ LET r == disconnect(s, ext) IN
     /\ s' = r.s
     /\ discPending' = IF r.await = Null THEN discPending
                       ELSE [discPending EXCEPT ![r.await] = @ + 1]
     /\ last' = [op |-> "disconnect", outcome |-> r.outcome]
  /\ watch' = CallerDone(s', watch)
  /\ UNCHANGED <<ext, connPending, counts, singleton>>

SignOps == {"signAndSubmitTransaction", "signTransaction", "signMessage"}

SignResult(op, st) ==
  CASE op = "signAndSubmitTransaction" -> signAndSubmitTransaction(st)
    [] op = "signTransaction" -> signTransaction(st)
    [] op = "signMessage" -> signMessage(st)

\* one of the signing operations; the adapter's method touches no ref of the
\* session, whatever it answers
Sign ==
  /\ CallerTurn
  /\ \E op \in SignOps :
       LET r == SignResult(op, s)
       IN /\ s' = r.s
          /\ last' = [op |-> "sign", outcome |-> r.outcome]
  /\ watch' = CallerDone(s', watch)
  /\ UNCHANGED <<ext, connPending, discPending, counts, singleton>>

\* ------------------------------------------------------------- watcher queue
\* one watcher job of the flush; the flush goes on while a watcher has changed sources
Flushed(st, w) == [w EXCEPT !.syncOps = 0, !.flushing = Dirty(st, w)]

RunWatchAdapters ==
  /\ Dirty1(s)
  /\ s' = watchAdapters(s, ext)
  /\ watch' = Flushed(s', watch)
  /\ UNCHANGED <<ext, connPending, discPending, counts, last, singleton>>

RunWatchReadyState ==
  /\ Dirty2(s, watch)
  /\ s' = watchReadyState(s, ext)
  /\ watch' = Flushed(s', [watch EXCEPT !.old2 = Sources2(s)])
  /\ UNCHANGED <<ext, connPending, discPending, counts, last, singleton>>

RunWatchStoredName ==
  /\ Dirty3(s, watch)
  /\ s' = watchStoredName(s, ext)
  /\ watch' = Flushed(s', [watch EXCEPT !.old3 = Sources3(s)])
  /\ UNCHANGED <<ext, connPending, discPending, counts, last, singleton>>

RunWatchAutoConnect ==
  /\ Dirty4(s, watch)
  /\ LET r == watchAutoConnect(s, ext) IN
     /\ r.await # Null => counts.connectCalls < MaxConnectCalls
     /\ s' = r.s
     /\ connPending' = IF r.await = Null THEN connPending
                       ELSE [connPending EXCEPT ![<<r.await, "auto">>] = @ + 1]
     /\ counts' = [counts EXCEPT !.connectCalls = IF r.await = Null THEN @ ELSE @ + 1]
     /\ last' = IF r.outcome = "skip" THEN last
                ELSE [op |-> "connect", outcome |-> r.outcome]
  /\ watch' = Flushed(s', [watch EXCEPT !.old4 = Sources4(s)])
  /\ UNCHANGED <<ext, discPending, singleton>>

\* ------------------------------------------------------------- the adapters
\* adapter promises settle and adapter events arrive after the watcher queue is flushed
AdapterTurn == ~Dirty(s, watch)

AdapterDone(w) == [w EXCEPT !.syncOps = 0]

Connected(e, a) ==
  [e EXCEPT !.connected[a] = TRUE,
            !.publicAccount[a] = AccountOf(a),
            !.network[a] = NetworkOf(a)]

Disconnected(e, a) ==
  [e EXCEPT !.connected[a] = FALSE, !.publicAccount[a] = NoValue,
            !.network[a] = NoValue]

ConnectResolves ==
  /\ AdapterTurn
  /\ \E a \in AdapterNames, by \in {"caller", "auto"} :
       /\ connPending[<<a, by>>] > 0
       /\ connPending' = [connPending EXCEPT ![<<a, by>>] = @ - 1]
       /\ ext' = Connected(ext, a)
       /\ s' = connectResolved(s)
  /\ last' = [op |-> "connect", outcome |-> "resolved"]
  /\ watch' = AdapterDone(watch)
  /\ UNCHANGED <<discPending, counts, singleton>>

ConnectRejects ==
  /\ AdapterTurn
  /\ \E a \in AdapterNames, by \in {"caller", "auto"} :
       /\ connPending[<<a, by>>] > 0
       /\ connPending' = [connPending EXCEPT ![<<a, by>>] = @ - 1]
       /\ s' = IF by = "auto" THEN handleError(connectRejected(s, ext), "AdapterError")
               ELSE connectRejected(s, ext)
  /\ last' = [op |-> "connect", outcome |-> "rejected"]
  /\ watch' = AdapterDone(watch)
  /\ UNCHANGED <<ext, discPending, counts, singleton>>

DisconnectResolves ==
  /\ AdapterTurn
  /\ \E a \in AdapterNames :
       /\ discPending[a] > 0
       /\ discPending' = [discPending EXCEPT ![a] = @ - 1]
       /\ ext' = Disconnected(ext, a)
       /\ s' = disconnectSettled(s, ext', FALSE)
  /\ last' = [op |-> "disconnect", outcome |-> "resolved"]
  /\ watch' = AdapterDone(watch)
  /\ UNCHANGED <<connPending, counts, singleton>>

DisconnectRejects ==
  /\ AdapterTurn
  /\ \E a \in AdapterNames :
       /\ discPending[a] > 0
       /\ discPending' = [discPending EXCEPT ![a] = @ - 1]
       /\ s' = disconnectSettled(s, ext, TRUE)
  /\ last' = [op |-> "disconnect", outcome |-> "rejected"]
  /\ watch' = AdapterDone(watch)
  /\ UNCHANGED <<ext, connPending, counts, singleton>>

\* emit(event): a handler registered n times runs n times
RECURSIVE Emit(_, _, _, _)
Emit(event, n, st, e) ==
  IF n = 0 THEN st
  ELSE Emit(event, n - 1,
         CASE event = "accountChange" -> handleAddressChange(st, e)
           [] event = "networkChange" -> handleNetworkChange(st, e)
           [] event = "disconnect" -> handleDisconnect(st, e)
           [] event = "error" -> handleError(st, "AdapterError"),
         e)

RECURSIVE EmitReadyStateChange(_, _, _, _)
EmitReadyStateChange(a, isReady, n, st) ==
  IF n = 0 THEN st
  ELSE EmitReadyStateChange(a, isReady, n - 1, handleReadyStateChange(st, a, isReady))

\* the readiness an adapter reports once it is detected: A is a wallet of an
\* installed extension, B a wallet that can be loaded
DetectedAs(a) == IF a = "A" THEN "Installed" ELSE "Loadable"

\* an adapter that was not detected is detected and tells its readyStateChange
\* listeners; readiness is never taken back
AdapterReadyStateChange ==
  /\ AdapterTurn
  /\ \E a \in AdapterNames, r \in {"Installed", "Loadable"} :
       /\ r = DetectedAs(a)
       /\ ext.readyState[a] = "NotDetected"
       /\ ext' = [ext EXCEPT !.readyState[a] = r]
       /\ s' = EmitReadyStateChange(a, r, s.readyListeners[a], s)
  /\ last' = [op |-> "readyStateChange", outcome |-> "ok"]
  /\ watch' = AdapterDone(watch)
  /\ UNCHANGED <<connPending, discPending, counts, singleton>>

AdapterAccountChange ==
  /\ AdapterTurn
  /\ \E a \in AdapterNames :
       /\ ext.connected[a]
       /\ s' = Emit("accountChange", s.handlers[a], s, ext)
  /\ last' = [op |-> "accountChange", outcome |-> "ok"]
  /\ watch' = AdapterDone(watch)
  /\ UNCHANGED <<ext, connPending, discPending, counts, singleton>>

AdapterNetworkChange ==
  /\ AdapterTurn
  /\ \E a \in AdapterNames :
       /\ ext.connected[a]
       /\ s' = Emit("networkChange", s.handlers[a], s, ext)
  /\ last' = [op |-> "networkChange", outcome |-> "ok"]
  /\ watch' = AdapterDone(watch)
  /\ UNCHANGED <<ext, connPending, discPending, counts, singleton>>

\* a connected adapter disconnects on its own account, or inside its
\* disconnect() before that settles, and emits disconnect
AdapterDisconnect ==
  /\ AdapterTurn
  /\ \E a \in AdapterNames :
       /\ ext.connected[a]
       /\ ext' = Disconnected(ext, a)
       /\ s' = Emit("disconnect", s.handlers[a], s, ext')
  /\ last' = [op |-> "disconnectEvent", outcome |-> "ok"]
  /\ watch' = AdapterDone(watch)
  /\ UNCHANGED <<connPending, discPending, counts, singleton>>

AdapterError ==
  /\ AdapterTurn
  /\ \E a \in AdapterNames :
       /\ s.handlers[a] > 0
       /\ s' = Emit("error", s.handlers[a], s, ext)
  /\ last' = [op |-> "other", outcome |-> "ok"]
  /\ watch' = AdapterDone(watch)
  /\ UNCHANGED <<ext, connPending, discPending, counts, singleton>>

\* ------------------------------------------------------------- the module-global variant
\* useVueWalletProvider: one adapters list, one connecting flag and one wallets
\* view for the process, shared by every useWallets(); connect(name) has no
\* entry guard.
\* the adapters the module constructs (two stand for the twelve)
walletAdapters == <<"A", "B">>

\* a name that is no adapter's
UnknownName == "Z"

\* connect(toConnectWalletName) up to its await: the adapter is looked up by
\* name in wallets, whose adapters are those of the list; readiness is read
\* from the adapter itself
connectByName(g, e, toConnectWalletName) ==
  IF ~InSeq(walletAdapters, toConnectWalletName)
  THEN [g |-> g, outcome |-> "WalletNotSelectedError", await |-> Null]
  ELSE IF ~IsReady(e, toConnectWalletName)
       THEN [g |-> g, outcome |-> "WalletNotReadyError", await |-> Null]
       ELSE [g |-> [g EXCEPT !.connecting = TRUE], outcome |-> "pending",
             await |-> toConnectWalletName]

\* connect(name) after its await: the result returned or the error rethrown,
\* then finally
connectByNameSettled(g) == [g EXCEPT !.connecting = FALSE]

SingletonConnect ==
  /\ \E name \in AdapterNames \cup {UnknownName} :
       LET r == connectByName(singleton, ext, name) IN
       /\ r.await # Null => singleton.calls < MaxConnectCalls
       /\ singleton' =
            IF r.await = Null THEN [r.g EXCEPT !.outcome = r.outcome]
            ELSE [r.g EXCEPT !.pending[r.await] = @ + 1, !.calls = @ + 1,
                             !.outcome = r.outcome]
  /\ UNCHANGED <<s, ext, connPending, discPending, watch, counts, last>>

SingletonConnectResolves ==
  /\ \E a \in AdapterNames :
       /\ singleton.pending[a] > 0
       /\ ext' = Connected(ext, a)
       /\ singleton' = [connectByNameSettled(singleton) EXCEPT
                          !.pending[a] = @ - 1, !.outcome = "resolved"]
  /\ UNCHANGED <<s, connPending, discPending, watch, counts, last>>

SingletonConnectRejects ==
  /\ \E a \in AdapterNames :
       /\ singleton.pending[a] > 0
       /\ singleton' = [connectByNameSettled(singleton) EXCEPT
                          !.pending[a] = @ - 1, !.outcome = "rejected"]
  /\ UNCHANGED <<s, ext, connPending, discPending, watch, counts, last>>

\* ------------------------------------------------------------- specification
Next ==
  \/ InitCall
  \/ Select
  \/ Connect
  \/ Disconnect
  \/ Sign
  \/ RunWatchAdapters
  \/ RunWatchReadyState
  \/ RunWatchStoredName
  \/ RunWatchAutoConnect
  \/ ConnectResolves
  \/ ConnectRejects
  \/ DisconnectResolves
  \/ DisconnectRejects
  \/ AdapterReadyStateChange
  \/ AdapterAccountChange
  \/ AdapterNetworkChange
  \/ AdapterDisconnect
  \/ AdapterError

Spec == Init /\ [][Next]_vars

\* the session left to itself after init(): no select(), connect() or disconnect()
\* of a caller, only the watchers and the adapters
NextAuto ==
  \/ InitCall
  \/ RunWatchAdapters
  \/ RunWatchReadyState
  \/ RunWatchStoredName
  \/ RunWatchAutoConnect
  \/ ConnectResolves
  \/ ConnectRejects
  \/ AdapterReadyStateChange
  \/ AdapterAccountChange
  \/ AdapterNetworkChange
  \/ AdapterDisconnect
  \/ AdapterError

SpecAuto == Init /\ [][NextAuto]_vars

\* the session configured again and again: init() calls, the watchers and the
\* adapters, no select(), connect() or disconnect() of a caller
NextSwap ==
  \/ InitCall
  \/ InitAgain
  \/ RunWatchAdapters
  \/ RunWatchReadyState
  \/ RunWatchStoredName
  \/ RunWatchAutoConnect
  \/ ConnectResolves
  \/ ConnectRejects
  \/ AdapterReadyStateChange
  \/ AdapterAccountChange
  \/ AdapterNetworkChange
  \/ AdapterDisconnect
  \/ AdapterError

SpecSwap == Init /\ [][NextSwap]_vars

\* the module-global variant and its adapters
NextSingleton ==
  \/ SingletonConnect
  \/ SingletonConnectResolves
  \/ SingletonConnectRejects
  \/ AdapterReadyStateChange

SpecSingleton == Init /\ [][NextSingleton]_vars

\* the session of an application that configures an onError handler
NextOnError ==
  \/ InitWithHandler
  \/ Select
  \/ Connect
  \/ Disconnect
  \/ Sign
  \/ RunWatchAdapters
  \/ RunWatchReadyState
  \/ RunWatchStoredName
  \/ RunWatchAutoConnect
  \/ ConnectResolves
  \/ ConnectRejects
  \/ DisconnectResolves
  \/ DisconnectRejects
  \/ AdapterReadyStateChange
  \/ AdapterAccountChange
  \/ AdapterNetworkChange
  \/ AdapterDisconnect
  \/ AdapterError

SpecOnError == Init /\ [][NextOnError]_vars

\* ------------------------------------------------------------- properties
RECURSIVE SumOver(_, _)
SumOver(f, dom) ==
  IF dom = {} THEN 0
  ELSE LET x == CHOOSE y \in dom : TRUE IN f[x] + SumOver(f, dom \ {x})

\* adapter connect() / disconnect() calls of the session that have not settled
ConnectsInFlight == SumOver(connPending, DOMAIN connPending)
DisconnectsInFlight == SumOver(discPending, DOMAIN discPending)

\* the all-null/false state of the session
Idle(st) ==
  /\ st.adapter = Null /\ st.account = NoValue /\ st.walletNetwork = NoValue
  /\ ~st.connected /\ ~st.connecting /\ ~st.disconnecting

\* C1: in every reachable state, connected = true implies that the active
\* adapter is not null.
C1_ConnectedHasAdapter == s.connected => s.adapter # Null

\* C1 witness: a session whose connected flag is true
C1_Witness == s.connected /\ s.adapter = "A"

\* a connect() call that gets past nothing or everything: by a caller, or by
\* the auto-connect watcher when its own guard lets it call
ConnectCalled == Connect \/ (RunWatchAutoConnect /\ ~AutoConnectGuard(s))

\* C2: while the adapter connect of a first connect() is pending, a second
\* connect() is a no-op: it changes nothing, calls no adapter connect and
\* raises no error; so at most one adapter connect call is ever pending.
C2_SecondConnectIsNoOp ==
  /\ [](ConnectsInFlight <= 1)
  /\ [][(ConnectsInFlight > 0 /\ ConnectCalled) =>
          /\ s' = s
          /\ connPending' = connPending
          /\ counts' = counts
          /\ last' = [op |-> "connect", outcome |-> "noop"]]_vars

\* C2 witness: a connect() returned as a no-op while an adapter connect is pending
C2_Witness ==
  /\ ConnectsInFlight = 1
  /\ s.connecting
  /\ last = [op |-> "connect", outcome |-> "noop"]

\* C3: select(A.name) and connect() on an idle session, with A Installed or
\* Loadable: once the adapter connect resolves, connected is true, account is
\* A's publicAccount and the persisted selection is A's name.
C3_ResolvedConnectIsConnected ==
  ( /\ last = [op |-> "connect", outcome |-> "resolved"]
    /\ counts.connectCalls = 1
    /\ DisconnectsInFlight = 0
    /\ ~s.autoConnect
    /\ s.adapter = "A" /\ s.walletName = "A" )
  => /\ s.connected
     /\ s.account = ext.publicAccount["A"]
     /\ Persisted(s) = JSONstringify("A")

\* the wallet connect() would pick is not ready
SelectedNotReady ==
  LET index == FindWallet(s.wallets, s.walletName) IN
  /\ index # 0
  /\ ext.readyState[s.wallets[index].adapter] \notin {"Installed", "Loadable"}

\* C4: connect() on a selected wallet whose readiness is neither Installed nor
\* Loadable rejects with WalletNotReadyError, calls no adapter connect, clears
\* the persisted selection and leaves connected false.
C4_NotReadyRejects ==
  [][(ConnectCalled /\ ~(s.connecting \/ s.disconnecting \/ s.connected)
        /\ SelectedNotReady) =>
       /\ last' = [op |-> "connect", outcome |-> "WalletNotReadyError"]
       /\ connPending' = connPending
       /\ counts' = counts
       /\ Persisted(s') = NoItem
       /\ ~s'.connected]_vars

\* C4 witness: connect() rejected with WalletNotReadyError on B, which was
\* the persisted selection until then
C4_Witness ==
  /\ last = [op |-> "connect", outcome |-> "WalletNotReadyError"]
  /\ s.adapter = "B" /\ ext.readyState["B"] = "NotDetected"
  /\ ext.storageOK /\ Persisted(s) = NoItem /\ ~s.connected

\* C5: whenever connect() rejects (no matching wallet, wallet not ready, adapter
\* connect rejected), the session is in the all-null/false state afterwards and
\* there is no persisted selection.
C5_RejectedConnectLeavesIdle ==
  ( /\ last.op = "connect"
    /\ last.outcome \in {"WalletNotSelectedError", "WalletNotReadyError", "rejected"} )
  => Idle(s) /\ Persisted(s) = NoItem

\* C6: when the adapter disconnect of a disconnect() rejects, teardown still
\* runs: afterwards disconnecting is false, the persisted selection is cleared,
\* the lifecycle listeners are off that adapter and the session is in the
\* all-null/false state.
C6_RejectedDisconnectTearsDown ==
  [][\A a \in AdapterNames :
       (DisconnectRejects /\ discPending'[a] < discPending[a]) =>
         /\ ~s'.disconnecting
         /\ Persisted(s') = NoItem
         /\ s'.handlers[a] = 0
         /\ Idle(s')]_vars

\* the end state of a disconnect: session reset, selection cleared, listeners
\* off the adapter that was active
TornDown(st, a) == Idle(st) /\ Persisted(st) = NoItem /\ st.handlers[a] = 0

\* C7: from a connected session, a disconnect notification emitted by the
\* active adapter ends in the same state as a completed disconnect() does:
\* session reset to idle, persisted selection cleared, listeners detached.
C7_AdapterDisconnectTearsDown ==
  /\ [][(s.connected /\ ~s.connecting /\ ~s.disconnecting /\ AdapterDisconnect
          /\ ext.connected[s.adapter] /\ ~ext'.connected[s.adapter])
        => TornDown(s', s.adapter)]_vars
  /\ [][\A a \in AdapterNames :
         (s.connected /\ ~s.connecting /\ (DisconnectResolves \/ DisconnectRejects)
          /\ discPending'[a] < discPending[a])
        => TornDown(s', a)]_vars

\* C8: with autoConnect on and no caller action after init(), the watcher
\* re-firing never makes a second adapter connect call.
C8_AutoConnectCallsOnce == counts.connectCalls <= 1

\* C9: connecting and disconnecting are never both true, and while either is
\* true connected is false.
C9_FlagsExclusive ==
  /\ ~(s.connecting /\ s.disconnecting)
  /\ (s.connecting \/ s.disconnecting) => ~s.connected

\* C10: at most one adapter connect or disconnect call of the session is in
\* flight at any time.
C10_OneCallInFlight == ConnectsInFlight + DisconnectsInFlight <= 1

\* the adapters that carry lifecycle handlers (accountChange, networkChange,
\* disconnect, error) of the session
WithHandlers(st) == {a \in AdapterNames : st.handlers[a] > 0}

\* C11: at most one adapter has live lifecycle handlers of the session, and an
\* adapter has them only between a successful connect() on it and the next
\* teardown, that is only while it is the active adapter.
C11_OneAdapterHasHandlers ==
  /\ Cardinality(WithHandlers(s)) <= 1
  /\ \A a \in WithHandlers(s) : s.adapter = a


\* the errors the session throws itself
SessionErrors ==
  {"WalletNotSelectedError", "WalletNotReadyError", "WalletNotConnectedError"}

\* C12: once init() has been given an onError handler, every error raised to a
\* caller (the session's own three errors, and the error of a rejected adapter
\* connect or disconnect) has also been delivered to that handler.
C12_ErrorsReachHandler ==
  counts.inited =>
    /\ last.outcome \in SessionErrors => last.outcome \in s.delivered
    /\ last.outcome = "rejected" => "AdapterError" \in s.delivered


\* the last operation was a connect() that failed or was rejected
ConnectFailed(l) ==
  /\ l.op = "connect"
  /\ l.outcome \in {"WalletNotSelectedError", "WalletNotReadyError", "rejected"}

\* the last operation was a disconnect() that ran: on an idle session, or to
\* its adapter call resolving or rejecting
DisconnectRan(l) ==
  /\ l.op = "disconnect"
  /\ l.outcome \in {"cleared", "resolved", "rejected"}

\* C13: after a connect() that failed or was rejected for any reason (no wallet
\* matching the selected name included), and after any disconnect path
\* (disconnect() on an idle session, resolving or rejecting, or a disconnect
\* emitted by an adapter to the session's handler), storage holds no persisted
\* selection.
C13_FailureClearsSelection ==
  [][/\ (ConnectFailed(last') \/ DisconnectRan(last')) => Persisted(s') = NoItem
     /\ \A a \in AdapterNames :
          (AdapterDisconnect /\ ext.connected[a] /\ ~ext'.connected[a]
             /\ s.handlers[a] > 0) => Persisted(s') = NoItem]_vars


\* C14: account and network are not null only while the active adapter is not
\* null; an accountChange or networkChange event that arrives after teardown
\* sets neither.
C14_AccountNeedsAdapter ==
  (s.account # NoValue \/ s.walletNetwork # NoValue) => s.adapter # Null

\* C14 witness: an accountChange event of a connected adapter that still
\* carries handlers has arrived at a session with no active adapter
C14_Witness ==
  /\ last = [op |-> "accountChange", outcome |-> "ok"]
  /\ s.adapter = Null /\ s.account = NoValue
  /\ \E a \in AdapterNames : s.handlers[a] > 0 /\ ext.publicAccount[a] # NoValue


\* C15: once the watcher of the adapter list has run, every adapter of the
\* current list has exactly one live readyStateChange listener of the session
\* and an adapter that is not in the list has none, however often the list was
\* replaced.
C15_OneReadyListenerEach ==
  ~s.adaptersChanged =>
    \A a \in AdapterNames :
      s.readyListeners[a] = IF InSeq(s.adapters, a) THEN 1 ELSE 0


\* C16: with storage at hand, select(X) followed by a load of the persisted
\* selection under the same key yields X, for every wallet name X; select(null)
\* followed by a load yields null.
C16_SelectLoadRoundTrip ==
  [][\A X \in WalletNames :
       (Select /\ ext.storageOK /\ s' = setWalletName(s, ext, X)) =>
         getWalletNameFromLocalStorage(s', ext', s'.localStorageKey) = X]_vars

\* C16 witness: select("B") has stored B's name, and a load gives it back
C16_Witness ==
  /\ last = [op |-> "other", outcome |-> "ok"]
  /\ ext.storageOK
  /\ Persisted(s) = JSONstringify("B")
  /\ getWalletNameFromLocalStorage(s, ext, s.localStorageKey) = "B"


\* C17: a readyStateChange notification of adapter a that reaches the session
\* changes the entry of a in wallets and no other: the list keeps its length,
\* the entry of a keeps its place and adapter and takes the new readiness,
\* every other entry is as it was; when no entry has a's name nothing changes.
C17_ReadinessChangesOneEntry ==
  [][\A a \in AdapterNames :
       (AdapterReadyStateChange /\ ext'.readyState[a] # ext.readyState[a]
          /\ s.readyListeners[a] > 0) =>
         /\ Len(s'.wallets) = Len(s.wallets)
         /\ \A i \in 1..Len(s.wallets) :
              s'.wallets[i] =
                IF s.wallets[i].adapter = a
                THEN [adapter |-> a, readyState |-> ext'.readyState[a]]
                ELSE s.wallets[i]]_vars

\* C17 witness: B's notification has changed the second entry of wallets and
\* left the first, A's, as it was
C17_Witness ==
  /\ last = [op |-> "readyStateChange", outcome |-> "ok"]
  /\ s.readyListeners["B"] > 0
  /\ s.wallets = <<[adapter |-> "A", readyState |-> "NotDetected"],
                   [adapter |-> "B", readyState |-> "Loadable"]>>


\* the refs of the session, the storage and the listeners it has registered
SessionFields(st) ==
  <<st.adapters, st.localStorageKey, st.autoConnect, st.onError, st.walletName,
    st.wallet, st.adapter, st.account, st.connected, st.connecting,
    st.disconnecting, st.readyState, st.walletNetwork, st.wallets, st.storage,
    st.handlers, st.readyListeners>>

\* the adapter method a signing operation hands over to
DelegateOf(op) ==
  CASE op = "signAndSubmitTransaction" -> "adapter.signAndSubmitTransaction"
    [] op = "signTransaction" -> "adapter.signTransaction"
    [] op = "signMessage" -> "adapter.signMessage"

\* what a signing operation is to answer in a session
SignExpected(op, st) ==
  IF st.adapter = Null THEN "WalletNotSelectedError"
  ELSE IF ~st.connected THEN "WalletNotConnectedError"
  ELSE DelegateOf(op)

\* C18: each of signAndSubmitTransaction, signTransaction and signMessage
\* fails with WalletNotSelectedError when the active adapter is null, otherwise
\* with WalletNotConnectedError when connected is false, and only otherwise
\* hands over to the adapter's method; none of them changes a session field.
C18_SignGuards ==
  [][Sign =>
       /\ \A op \in SignOps :
            /\ SignResult(op, s).outcome = SignExpected(op, s)
            /\ SessionFields(SignResult(op, s).s) = SessionFields(s)
       /\ last'.op = "sign"
       /\ \E op \in SignOps : last'.outcome = SignExpected(op, s)
       /\ SessionFields(s') = SessionFields(s)]_vars

\* C18 witness: signMessage was handed over to the adapter of a connected session
C18_Witness ==
  /\ last = [op |-> "sign", outcome |-> "adapter.signMessage"]
  /\ s.adapter # Null /\ s.connected

\* C18 witnesses of the two failures: no active adapter, and an active adapter
\* that is not connected
C18_WitnessNotSelected ==
  last = [op |-> "sign", outcome |-> "WalletNotSelectedError"] /\ s.adapter = Null

C18_WitnessNotConnected ==
  /\ last = [op |-> "sign", outcome |-> "WalletNotConnectedError"]
  /\ s.adapter # Null /\ ~s.connected


\* the refs select() is to leave alone
LifecycleFields(st) ==
  <<st.adapter, st.account, st.walletNetwork, st.connected, st.connecting,
    st.disconnecting>>

\* C19: select(name) sets walletName to name and persists it, select(null)
\* clears both; this also where storage is unavailable or throws, in which case
\* nothing is raised (and nothing can be persisted); the active adapter,
\* account, network, connected, connecting and disconnecting stay as they are.
C19_SelectSetsName ==
  [][\A X \in WalletNames :
       (Select /\ s' = setWalletName(s, ext, X)) =>
         /\ s'.walletName = X
         /\ ext.storageOK =>
              Persisted(s') = IF X = Null THEN NoItem ELSE JSONstringify(X)
         /\ LifecycleFields(s') = LifecycleFields(s)]_vars


\* adapter connect calls started by connect(name) of the module-global
\* variant that have not settled
SingletonConnectsInFlight == SumOver(singleton.pending, AdapterNames)

\* C20: in the module-global variant the shared connecting flag is true in
\* every state in which an adapter connect call started by connect(name) is
\* pending, also when two calls overlap and one settles before the other.
C20_ConnectingWhilePending == SingletonConnectsInFlight > 0 => singleton.connecting


====
